---- MODULE Spec2Model ----
(***************************************************************************)
(* Model of app/ai4bharat/transliteration/xlit_server.py: the three        *)
(* transliteration endpoints (/tl, /rtl, /transliterate), the per-client   *)
(* rate limiter in front of /tl and /rtl, and the Redis-backed content     *)
(* cache used by /transliterate.  Requests run concurrently, one per slot. *)
(* Strings are sequences of one-character strings.                         *)
(***************************************************************************)
EXTENDS Integers, Sequences, FiniteSets, TLC

VARIABLES req, cache, hits, window, firstTop

vars == <<req, cache, hits, window, firstTop>>

(* ------------------------------ bounds --------------------------------- *)

NumSlots == 2
MaxItems == 3
RaceItems == 1
LongLen == 33
LongWordLen == 100
KeyItems == 2
MaxHits == 6

(* ------------------------- program constants --------------------------- *)

MAX_SUGGESTIONS == 8
DEFAULT_NUM_SUGGESTIONS == 5
ULCA_DEFAULT_SUGGESTIONS == 5
RATE_LIMIT == 5
WORD_CHAR_LIMIT == 70
BATCH_CHAR_LIMIT == 32

Nothing == [present |-> FALSE]
Some(v) == [present |-> TRUE, val |-> v]

(* ------------------------------ strings -------------------------------- *)

Rep(c, n) == [j \in 1..n |-> c]

(* Variant: the slice keeps one character too many. *)
PrefixOffByOne(s, n) == SubSeq(s, 1, IF Len(s) < n + 1 THEN Len(s) ELSE n + 1)

Prefix(s, n) == SubSeq(s, 1, IF Len(s) < n THEN Len(s) ELSE n)

HasSpace(s) == \E j \in 1..Len(s) : s[j] = " "

RECURSIVE JsonEscape(_)
JsonEscape(s) ==
    IF s = <<>> THEN <<>>
    ELSE (IF Head(s) \in {"\"", "\\"} THEN <<"\\", Head(s)>> ELSE <<Head(s)>>)
         \o JsonEscape(Tail(s))

(* Variant: the string is put between quotes as it is. *)
JsonStringRaw(s) == <<"\"">> \o s \o <<"\"">>

JsonString(s) == <<"\"">> \o JsonEscape(s) \o <<"\"">>

JsonDumps(list) ==
    <<"[">> \o JsonString(list[1]) \o <<",", " ">> \o JsonString(list[2])
            \o <<",", " ">> \o JsonString(list[3]) \o <<"]">>

Utf8Encode(s) == [bytes |-> s]
Utf8Decode(b) == b.bytes

(* ------------------------------ languages ------------------------------ *)

En == <<"e", "n">>
Hi == <<"h", "i">>
Ta == <<"t", "a">>
Ur == <<"u", "r">>
Xx == <<"x", "x">>

En2IndicLangs == {Hi, Ta}
Indic2EnLangs == {Hi, Ur}

AllSupportedLangs(engine) ==
    IF engine = "en2indic" THEN En2IndicLangs ELSE Indic2EnLangs

(* ------------------------------- engine -------------------------------- *)

XlitError ==
    [lang_err |-> [xlit_error |-> "lang_err",
                   value |-> "Unsupported langauge ID requested ;( Please check available languages."],
     string_err |-> [xlit_error |-> "string_err",
                     value |-> "String passed is incompatable ;("],
     internal_err |-> [xlit_error |-> "internal_err", value |-> "Internal crash ;("],
     unknown_err |-> [xlit_error |-> "unknown_err", value |-> "Unknown Failure"],
     loading_err |-> [xlit_error |-> "loading_err",
                      value |-> "Loading failed ;( Check if metadata/paths are correctly configured."]]

XlitErrors == {XlitError[n] : n \in DOMAIN XlitError}

IsXlitError(x) == "xlit_error" \in DOMAIN x

Candidate(engine, text, lang, rank) ==
    [engine |-> engine, text |-> text, lang |-> lang, rank |-> rank]

Clamp(k) == IF k < 0 THEN 0 ELSE IF k > MAX_SUGGESTIONS THEN MAX_SUGGESTIONS ELSE k

TranslitWord(engine, text, lang, topk) ==
    [k \in 1..Clamp(topk) |-> Candidate(engine, text, lang, k)]

TranslitSentence(engine, text, lang) ==
    IF HasSpace(text)
    THEN [engine |-> engine, sentence |-> text, lang |-> lang]
    ELSE Candidate(engine, text, lang, 1)

(* What one engine call can do: return its result, raise, or return an
   XlitError member. *)
EngineErrors == {XlitError.string_err, XlitError.internal_err}

EngineOutcomes == {[kind |-> "ok"], [kind |-> "raise"]}
                  \cup {[kind |-> "err", err |-> e] : e \in EngineErrors}

(* --------------------------- python values ----------------------------- *)

(* A dynamically typed value: a list, a str, or another object. *)
PyList(seq) == [kind |-> "list", items |-> seq]
PyObj(x) == [kind |-> "obj", obj |-> x]
PyStr(s) == [kind |-> "str", str |-> s]

IsSubscriptable(v) == v.kind = "list"

(* Variant: the first element is converted with str() before it is encoded,
   so an error value no longer raises. *)
CanEncodeTopStr(target) ==
    /\ IsSubscriptable(target)
    /\ Len(target.items) > 0

(* item["target"][0].encode("utf-8") either yields bytes or raises. *)
CanEncodeTop(target) ==
    /\ IsSubscriptable(target)
    /\ Len(target.items) > 0
    /\ ~IsXlitError(target.items[1])

(* ---------------------------- request state ---------------------------- *)

Slots == 1..NumSlots

NoData == [hasInput |-> FALSE, hasConfig |-> FALSE, sourceLanguage |-> <<>>,
           targetLanguage |-> <<>>, isSentence |-> Nothing,
           numSuggestions |-> Nothing, input |-> <<>>]

NoResponse == [status |-> 0, body |-> [none |-> TRUE]]

NoCall == [fn |-> "none"]

IdleReq ==
    [pc |-> "idle", ep |-> "none",
     xff |-> Nothing, remote_addr |-> Nothing,
     lang_code |-> <<>>, word |-> <<>>, num_suggestions |-> 0,
     transliterate_numerals |-> FALSE,
     data |-> NoData, is_sentence |-> FALSE, engine |-> "none",
     i |-> 0, key |-> <<>>, call |-> NoCall,
     response |-> NoResponse, log |-> <<>>]

Item(source) == [source |-> source, target |-> PyObj([unset |-> TRUE])]

Body(src, tgt, sent, sug, texts) ==
    [hasInput |-> TRUE, hasConfig |-> TRUE, sourceLanguage |-> src,
     targetLanguage |-> tgt, isSentence |-> sent, numSuggestions |-> sug,
     input |-> [j \in 1..Len(texts) |-> Item(texts[j])]]

SeqsUpTo(S, n) == UNION {[1..m -> S] : m \in 0..n}

Respond(q, status, body) ==
    [q EXCEPT !.pc = "done", !.call = NoCall,
              !.response = [status |-> status, body |-> body]]

(* An exception leaving a handler: Flask answers 500 and the handler's
   partial work on the request body is dropped. *)
Unhandled(q, what) ==
    Respond([q EXCEPT !.log = Append(@, [op |-> "unhandled", what |-> what])],
            500, [unhandled |-> what])

Logged(q, event) == [q EXCEPT !.log = Append(@, event)]

(* The body of a batch request as it was received (the handler changes
   data["input"] in place). *)
Received(q) == q.log[1].data

(* A request is taken by the first free worker. *)
LowestIdle(r) ==
    /\ req[r].pc = "idle"
    /\ \A s \in Slots : s < r => req[s].pc # "idle"

(* ----------------------------- /transliterate -------------------------- *)

BeginUlca(r, bodies) ==
    /\ LowestIdle(r)
    /\ \E d \in bodies :
          req' = [req EXCEPT ![r] =
                    Logged([IdleReq EXCEPT !.pc = "handler", !.ep = "ulca",
                                           !.data = d],
                           [op |-> "recv", data |-> d])]
    /\ UNCHANGED <<cache, hits, window, firstTop>>

(* Variant: both directions are validated against one list that joins the
   languages of the two engines. *)
PairSupportedJoined(d) ==
    LET all == AllSupportedLangs("en2indic") \cup AllSupportedLangs("indic2en")
    IN \/ d.sourceLanguage = En /\ d.targetLanguage \in all
       \/ d.sourceLanguage \in all /\ d.targetLanguage = En

(* Variant: both directions are validated against the en2indic registry. *)
PairSupportedOneRegistry(d) ==
    \/ /\ d.sourceLanguage = En
       /\ d.targetLanguage \in AllSupportedLangs("en2indic")
    \/ /\ d.sourceLanguage \in AllSupportedLangs("en2indic")
       /\ d.targetLanguage = En

PairSupported(d) ==
    \/ /\ d.sourceLanguage = En
       /\ d.targetLanguage \in AllSupportedLangs("en2indic")
    \/ /\ d.sourceLanguage \in AllSupportedLangs("indic2en")
       /\ d.targetLanguage = En

UlcaMissingFields(r) ==
    /\ req[r].pc = "handler" /\ req[r].ep = "ulca"
    /\ ~req[r].data.hasInput \/ ~req[r].data.hasConfig
    /\ req' = [req EXCEPT ![r] =
                 Respond(@, 400, [statusCode |-> 400,
                     message |-> "Ensure input and config fields missing."])]
    /\ UNCHANGED <<cache, hits, window, firstTop>>

UlcaUnsupportedPair(r) ==
    /\ req[r].pc = "handler" /\ req[r].ep = "ulca"
    /\ req[r].data.hasInput /\ req[r].data.hasConfig
    /\ ~PairSupported(req[r].data)
    /\ req' = [req EXCEPT ![r] =
                 Respond(@, 501, [statusCode |-> 501,
                     message |-> "The mentioned language-pair is not supported yet."])]
    /\ UNCHANGED <<cache, hits, window, firstTop>>

(* Variant: the output list is built by prepending each finished item. *)
UlcaNextItemPrepending(q) ==
    IF q.i < Len(q.data.input)
    THEN [q EXCEPT !.i = @ + 1, !.pc = "get", !.call = NoCall]
    ELSE Respond(q, 200,
                 [output |-> [j \in 1..Len(q.data.input) |->
                                 q.data.input[Len(q.data.input) + 1 - j]]])

(* The head of `for item in data["input"]`: the next item, or the response. *)
UlcaNextItem(q) ==
    IF q.i < Len(q.data.input)
    THEN [q EXCEPT !.i = @ + 1, !.pc = "get", !.call = NoCall]
    ELSE Respond(q, 200, [output |-> q.data.input])

UlcaAccept(r) ==
    /\ req[r].pc = "handler" /\ req[r].ep = "ulca"
    /\ req[r].data.hasInput /\ req[r].data.hasConfig
    /\ PairSupported(req[r].data)
    /\ LET d == req[r].data
           is_sentence == IF d.isSentence.present THEN d.isSentence.val ELSE FALSE
           num_suggestions ==
               IF is_sentence THEN 1
               ELSE IF d.numSuggestions.present THEN d.numSuggestions.val
                    ELSE ULCA_DEFAULT_SUGGESTIONS
           toEn == d.targetLanguage = En
       IN req' = [req EXCEPT ![r] =
                    UlcaNextItem([@ EXCEPT
                        !.is_sentence = is_sentence,
                        !.num_suggestions = num_suggestions,
                        !.engine = IF toEn THEN "indic2en" ELSE "en2indic",
                        !.lang_code = IF toEn THEN d.sourceLanguage
                                      ELSE d.targetLanguage,
                        !.i = 0])]
    /\ UNCHANGED <<cache, hits, window, firstTop>>

CacheKey(q) ==
    JsonDumps(<<q.data.input[q.i].source, q.data.sourceLanguage,
                q.data.targetLanguage>>)

RedisGet(key) == IF key \in DOMAIN cache THEN Some(cache[key]) ELSE Nothing

(* Variant: the engine branches are not guarded by the lookup's result. *)
IsMissAlways(value) == TRUE

(* `if value is not None:` ... `elif`/`else`: the engine branches are taken
   only when the lookup found nothing. *)
IsMiss(value) == ~value.present

UlcaGetFails(r) ==
    /\ req[r].pc = "get"
    /\ req' = [req EXCEPT ![r] =
                 Unhandled(Logged(@, [op |-> "get", i |-> @.i, key |-> CacheKey(@),
                                      result |-> "fail"]), "redis")]
    /\ UNCHANGED <<cache, hits, window, firstTop>>

UlcaGetHit(r) ==
    /\ req[r].pc = "get"
    /\ LET q == req[r]
           key == CacheKey(q)
           value == RedisGet(key)
       IN /\ value.present
          /\ req' = [req EXCEPT ![r] =
                UlcaNextItem(Logged(
                    [q EXCEPT !.key = key,
                              !.data.input[q.i].target =
                                  PyList(<<Utf8Decode(value.val)>>)],
                    [op |-> "get", i |-> q.i, key |-> key, result |-> "hit"]))]
    /\ UNCHANGED <<cache, hits, window, firstTop>>

UlcaGetMiss(r) ==
    /\ req[r].pc = "get"
    /\ LET q == req[r]
           key == CacheKey(q)
           value == RedisGet(key)
           source == IF q.is_sentence THEN q.data.input[q.i].source
                     ELSE Prefix(q.data.input[q.i].source, BATCH_CHAR_LIMIT)
           call == [fn |-> IF q.is_sentence THEN "translit_sentence"
                           ELSE "translit_word",
                    engine |-> q.engine, text |-> source,
                    lang_code |-> q.lang_code,
                    topk |-> IF q.is_sentence THEN Nothing
                             ELSE Some(q.num_suggestions),
                    transliterate_numerals |-> FALSE]
       IN /\ IsMiss(value)
          /\ req' = [req EXCEPT ![r] =
                Logged(Logged(
                    [q EXCEPT !.key = key, !.pc = "calling", !.call = call,
                              !.data.input[q.i].source = source],
                    [op |-> "get", i |-> q.i, key |-> key, result |-> "miss"]),
                    [op |-> "call", i |-> q.i, call |-> call])]
    /\ UNCHANGED <<cache, hits, window, firstTop>>

(* What the engine hands back for a call that does not raise. *)
EngineResult(call, outcome) ==
    IF outcome.kind = "err" THEN PyObj(outcome.err)
    ELSE IF call.fn = "translit_sentence"
         THEN PyObj(TranslitSentence(call.engine, call.text, call.lang_code))
         ELSE PyList(TranslitWord(call.engine, call.text, call.lang_code,
                                  call.topk.val))

UlcaEngineRaises(r) ==
    /\ req[r].pc = "calling" /\ req[r].ep = "ulca"
    /\ req' = [req EXCEPT ![r] =
                 Unhandled(Logged(@, [op |-> "return", i |-> @.i,
                                      outcome |-> [kind |-> "raise"]]), "engine")]
    /\ UNCHANGED <<cache, hits, window, firstTop>>

UlcaEngineReturns(r) ==
    /\ req[r].pc = "calling" /\ req[r].ep = "ulca"
    /\ \E outcome \in EngineOutcomes :
          /\ outcome.kind # "raise"
          /\ LET q == req[r]
                 result == EngineResult(q.call, outcome)
                 target == IF q.is_sentence THEN PyList(<<result.obj>>) ELSE result
                 q1 == Logged([q EXCEPT !.data.input[q.i].target = target],
                              [op |-> "return", i |-> q.i, outcome |-> outcome,
                               target |-> target])
             IN req' = [req EXCEPT ![r] =
                          IF CanEncodeTop(target)
                          THEN [q1 EXCEPT !.pc = "set"]
                          ELSE Unhandled(q1, "target[0].encode")]
    /\ UNCHANGED <<cache, hits, window, firstTop>>

UlcaSetFails(r) ==
    /\ req[r].pc = "set"
    /\ req' = [req EXCEPT ![r] =
                 Unhandled(Logged(@, [op |-> "set", i |-> @.i, key |-> @.key,
                                      result |-> "fail"]), "redis")]
    /\ UNCHANGED <<cache, hits, window, firstTop>>

RedisSet(key, value) ==
    [k \in DOMAIN cache \cup {key} |-> IF k = key THEN value ELSE cache[k]]

UlcaSet(r) ==
    /\ req[r].pc = "set"
    /\ LET q == req[r]
           value == Utf8Encode(q.data.input[q.i].target.items[1])
       IN /\ cache' = RedisSet(q.key, value)
          /\ firstTop' = IF q.key \in DOMAIN firstTop THEN firstTop
                         ELSE [k \in DOMAIN firstTop \cup {q.key} |->
                                 IF k = q.key THEN Utf8Decode(value)
                                 ELSE firstTop[k]]
          /\ req' = [req EXCEPT ![r] =
                UlcaNextItem(Logged(q, [op |-> "set", i |-> q.i, key |-> q.key,
                                        value |-> value, result |-> "ok"]))]
    /\ UNCHANGED <<hits, window>>

(* ----------------------------- rate limiter ---------------------------- *)

Localhost == "127.0.0.1"

(* Variant: the limiter's default key function, which reads only
   request.remote_addr. *)
GetRemoteAddressDirect(q) ==
    IF q.remote_addr.present /\ q.remote_addr.val # "" THEN q.remote_addr.val
    ELSE Localhost

GetRemoteAddress(q) ==
    LET v == IF q.xff.present THEN q.xff ELSE q.remote_addr
    IN IF v.present /\ v.val # "" THEN v.val ELSE Localhost

LimitKey(q) == <<GetRemoteAddress(q), q.ep>>

Count(f, k) == IF k \in DOMAIN f THEN f[k] ELSE 0

Bump(f, k) == [x \in DOMAIN f \cup {k} |-> IF x = k THEN Count(f, k) + 1 ELSE f[x]]

(* Variant: reverse_xlit_api carries no limit decorator. *)
LimitAmountTlOnly(ep) == IF ep = "tl" THEN RATE_LIMIT ELSE MaxHits + 1

(* @limiter.limit("5/second") on xlit_api and on reverse_xlit_api. *)
LimitAmount(ep) == RATE_LIMIT

(* A fixed-window hit: the request is counted, then the count is compared
   with the amount. *)
WithinLimit(count, ep) == count <= LimitAmount(ep)

(* window (history, not program state): per client identity and endpoint,
   the requests that arrived and those admitted since the counter's window
   opened. *)
NoWindow == [arrived |-> 0, admitted |-> 0]

Window(k) == IF k \in DOMAIN window THEN window[k] ELSE NoWindow

LimiterHit(r) ==
    /\ req[r].pc = "limit"
    /\ LET q == req[r]
           k == LimitKey(q)
           allowed == WithinLimit(Count(hits, k) + 1, q.ep)
           me == <<GetRemoteAddress(q), q.ep>>
       IN /\ Count(hits, k) < MaxHits
          /\ hits' = Bump(hits, k)
          /\ window' = [x \in DOMAIN window \cup {me} |->
                          IF x = me
                          THEN [arrived |-> Window(me).arrived + 1,
                                admitted |-> Window(me).admitted
                                             + (IF allowed THEN 1 ELSE 0)]
                          ELSE window[x]]
          /\ req' = [req EXCEPT ![r] =
                IF allowed
                THEN Logged([q EXCEPT !.pc = "handler"],
                            [op |-> "limit", key |-> k, allowed |-> TRUE])
                ELSE Respond(Logged(q, [op |-> "limit", key |-> k,
                                        allowed |-> FALSE]),
                             429, [rate_limit_exceeded |-> "5 per 1 second"])]
    /\ UNCHANGED <<cache, firstTop>>

(* One second after a key's first hit its counter expires. *)
WindowExpires(k) ==
    /\ k \in DOMAIN hits
    /\ hits' = [x \in DOMAIN hits \ {k} |-> hits[x]]
    /\ window' = [x \in DOMAIN window \ {k} |-> window[x]]
    /\ UNCHANGED <<req, cache, firstTop>>

(* ------------------------------ /tl and /rtl --------------------------- *)

RECURSIVE LStrip(_)
LStrip(s) == IF s # <<>> /\ Head(s) = " " THEN LStrip(Tail(s)) ELSE s

RECURSIVE RStrip(_)
RStrip(s) ==
    IF s # <<>> /\ s[Len(s)] = " " THEN RStrip(SubSeq(s, 1, Len(s) - 1)) ELSE s

Strip(s) == RStrip(LStrip(s))

NoError == [text |-> "", hint |-> {}]

Envelope(word) ==
    [success |-> FALSE, error |-> NoError, at |-> "utcnow",
     input |-> Strip(word), result |-> PyStr("")]

InvalidScheme(engine) ==
    [text |-> "Invalid scheme identifier. Supported languages are: ",
     hint |-> AllSupportedLangs(engine)]

EndpointEngine(ep) == IF ep = "tl" THEN "en2indic" ELSE "indic2en"

BeginSingle(r, inputs) ==
    /\ LowestIdle(r)
    /\ \E x \in inputs :
          req' = [req EXCEPT ![r] =
                    [IdleReq EXCEPT !.pc = "limit", !.ep = x.ep,
                        !.xff = x.xff, !.remote_addr = x.remote_addr,
                        !.lang_code = x.lang_code, !.word = x.word,
                        !.num_suggestions =
                            IF x.num_suggestions.present
                            THEN x.num_suggestions.val
                            ELSE DEFAULT_NUM_SUGGESTIONS,
                        !.transliterate_numerals =
                            x.ep = "tl" /\ x.transliterate_numerals,
                        !.engine = EndpointEngine(x.ep)]]
    /\ UNCHANGED <<cache, hits, window, firstTop>>

SingleInvalidLang(r) ==
    /\ req[r].pc = "handler" /\ req[r].ep \in {"tl", "rtl"}
    /\ req[r].lang_code \notin AllSupportedLangs(req[r].engine)
    /\ LET q == req[r]
       IN req' = [req EXCEPT ![r] =
                    Respond(q, 200, [Envelope(q.word) EXCEPT
                                        !.error = InvalidScheme(q.engine)])]
    /\ UNCHANGED <<cache, hits, window, firstTop>>

SingleCall(r) ==
    /\ req[r].pc = "handler" /\ req[r].ep \in {"tl", "rtl"}
    /\ req[r].lang_code \in AllSupportedLangs(req[r].engine)
    /\ LET q == req[r]
           call == [fn |-> "translit_word", engine |-> q.engine,
                    text |-> Prefix(q.word, WORD_CHAR_LIMIT),
                    lang_code |-> q.lang_code,
                    topk |-> Some(q.num_suggestions),
                    transliterate_numerals |-> q.transliterate_numerals]
       IN req' = [req EXCEPT ![r] =
                    Logged([q EXCEPT !.pc = "calling", !.call = call],
                           [op |-> "call", i |-> 0, call |-> call])]
    /\ UNCHANGED <<cache, hits, window, firstTop>>

(* Variant: the except clause keeps the error's text, not the XlitError
   member. *)
SingleResultErrorText(call, outcome) ==
    IF outcome.kind = "raise" THEN PyStr(XlitError.internal_err.value)
    ELSE EngineResult(call, outcome)

(* try: ... except Exception: xlit_result = XlitError.internal_err *)
SingleResult(call, outcome) ==
    IF outcome.kind = "raise" THEN PyObj(XlitError.internal_err)
    ELSE EngineResult(call, outcome)

SingleReturn(r) ==
    /\ req[r].pc = "calling" /\ req[r].ep \in {"tl", "rtl"}
    /\ \E outcome \in EngineOutcomes :
          LET q == req[r]
              xlit_result == SingleResult(q.call, outcome)
              isError == xlit_result.kind = "obj" /\ IsXlitError(xlit_result.obj)
              response ==
                  IF isError
                  THEN [Envelope(q.word) EXCEPT
                           !.error = [text |-> xlit_result.obj.value, hint |-> {}]]
                  ELSE [Envelope(q.word) EXCEPT
                           !.result = xlit_result, !.success = TRUE]
          IN req' = [req EXCEPT ![r] =
                       Respond(Logged(q, [op |-> "return", i |-> 0,
                                          outcome |-> outcome]),
                               200, response)]
    /\ UNCHANGED <<cache, hits, window, firstTop>>

(* The engine call does not return. The handlers call the engine
   synchronously and set no timeout, so the request has no further step. *)
EngineHangs(r) ==
    /\ req[r].pc = "calling"
    /\ req' = [req EXCEPT ![r] =
                 Logged([@ EXCEPT !.pc = "hung"], [op |-> "hang", i |-> @.i])]
    /\ UNCHANGED <<cache, hits, window, firstTop>>

(* The response has been sent; the worker takes the next request. *)
Finish(r) ==
    /\ req[r].pc = "done"
    /\ req' = [req EXCEPT ![r] = IdleReq]
    /\ UNCHANGED <<cache, hits, window, firstTop>>

(* ------------------------------- inputs -------------------------------- *)

TShort == <<"a">>
TWords == <<"a", " ", "b">>
TLong == Rep("a", LongLen)

MalformedBodies == {[NoData EXCEPT !.hasInput = TRUE],
                    [NoData EXCEPT !.hasConfig = TRUE]}

(* Batch requests of one worker: both modes, every validation outcome. *)
SeqBodies ==
    MalformedBodies
    \cup {Body(En, Hi, sent, sug, texts) :
            sent \in {Nothing, Some(TRUE), Some(FALSE)},
            sug \in {Nothing, Some(0)},
            texts \in SeqsUpTo({TWords, TLong}, MaxItems)}
    \cup {Body(p[1], p[2], Nothing, Some(2), <<TShort>>) :
            p \in {<<Ur, En>>, <<En, Ur>>, <<Ta, En>>, <<En, Xx>>, <<Hi, Ta>>}}

(* Concurrent batch requests on one language pair, in both modes. *)
RaceBodies ==
    {Body(En, Hi, sent, sug, texts) :
        sent \in {Nothing, Some(TRUE)},
        sug \in {Nothing, Some(0)},
        texts \in SeqsUpTo({TWords}, RaceItems)}

ClientA == "10.0.0.1"
ClientB == "10.0.0.2"

Single(ep, xff, remote_addr, lang_code, word, sug, numerals) ==
    [ep |-> ep, xff |-> xff, remote_addr |-> remote_addr,
     lang_code |-> lang_code, word |-> word, num_suggestions |-> sug,
     transliterate_numerals |-> numerals]

(* /tl and /rtl requests of one client. *)
LimitInputs ==
    {Single(ep, Nothing, Some(ClientA), Hi, TShort, Nothing, FALSE) :
        ep \in {"tl", "rtl"}}

(* /tl requests that reach the service directly, through a proxy that names
   the client in X-Forwarded-For, and with an empty X-Forwarded-For; two of
   them ask for a language the engine does not have. *)
ClientInputs ==
    {Single("tl", x[1], x[2], x[3], TShort, Nothing, FALSE) :
        x \in {<<Nothing, Some(ClientA), Xx>>, <<Some(ClientA), Some(ClientB), Hi>>,
               <<Some(""), Some(ClientB), Xx>>}}

AllSingles ==
    {Single(ep, Nothing, Some(ClientA), lang, <<"a", " ">>, sug, FALSE) :
        ep \in {"tl", "rtl"}, lang \in {Hi, Ta, Ur, Xx},
        sug \in {Nothing, Some(0)}}

AllBodies ==
    MalformedBodies
    \cup {Body(p[1], p[2], sent, Nothing, <<TShort>>) :
            p \in {<<En, Hi>>, <<Ur, En>>, <<En, Ur>>, <<Ta, En>>, <<En, Xx>>},
            sent \in {Nothing, Some(TRUE)}}

(* --------------------------- specifications ---------------------------- *)

Init ==
    /\ req = [r \in Slots |-> IdleReq]
    /\ cache = <<>>
    /\ firstTop = <<>>
    /\ hits = <<>>
    /\ window = <<>>

LimitKeys == {<<a, ep>> : a \in {ClientA, ClientB, Localhost}, ep \in {"tl", "rtl"}}

(* The whole service, one worker. *)
Next ==
    \/ BeginSingle(1, AllSingles)
    \/ BeginUlca(1, AllBodies)
    \/ LimiterHit(1)
    \/ \E k \in LimitKeys : WindowExpires(k)
    \/ SingleInvalidLang(1)
    \/ SingleCall(1)
    \/ SingleReturn(1)
    \/ UlcaMissingFields(1)
    \/ UlcaUnsupportedPair(1)
    \/ UlcaAccept(1)
    \/ UlcaGetFails(1)
    \/ UlcaGetHit(1)
    \/ UlcaGetMiss(1)
    \/ UlcaEngineRaises(1)
    \/ UlcaEngineReturns(1)
    \/ UlcaSetFails(1)
    \/ UlcaSet(1)
    \/ Finish(1)

Spec == Init /\ [][Next]_vars

(* The batch endpoint, one worker, multi-item batches. *)
NextSeq ==
    \/ BeginUlca(1, SeqBodies)
    \/ UlcaMissingFields(1)
    \/ UlcaUnsupportedPair(1)
    \/ UlcaAccept(1)
    \/ UlcaGetFails(1)
    \/ UlcaGetHit(1)
    \/ UlcaGetMiss(1)
    \/ UlcaEngineRaises(1)
    \/ UlcaEngineReturns(1)
    \/ UlcaSetFails(1)
    \/ UlcaSet(1)
    \/ Finish(1)

SpecSeq == Init /\ [][NextSeq]_vars

(* The batch endpoint under concurrent requests. *)
NextBatch ==
    \E r \in Slots :
        \/ BeginUlca(r, RaceBodies)
        \/ UlcaAccept(r)
        \/ UlcaGetFails(r)
        \/ UlcaGetHit(r)
        \/ UlcaGetMiss(r)
        \/ UlcaEngineRaises(r)
        \/ UlcaEngineReturns(r)
        \/ UlcaSetFails(r)
        \/ UlcaSet(r)
        \/ Finish(r)

SpecBatch == Init /\ [][NextBatch]_vars

(* The rate-limited endpoints under concurrent requests. *)
NextLimit ==
    \/ \E r \in Slots :
        \/ BeginSingle(r, LimitInputs)
        \/ LimiterHit(r)
        \/ SingleCall(r)
        \/ SingleReturn(r)
        \/ Finish(r)
    \/ \E k \in LimitKeys : WindowExpires(k)

SpecLimit == Init /\ [][NextLimit]_vars

(* /tl under concurrent requests of several clients. *)
NextClients ==
    \/ \E r \in Slots :
        \/ BeginSingle(r, ClientInputs)
        \/ LimiterHit(r)
        \/ SingleInvalidLang(r)
        \/ SingleCall(r)
        \/ SingleReturn(r)
        \/ Finish(r)
    \/ \E k \in LimitKeys : WindowExpires(k)

SpecClients == Init /\ [][NextClients]_vars

(* A word of n characters whose first character differs from the rest. *)
WordOf(n) == <<"x">> \o Rep("a", n - 1)

(* /tl and /rtl requests with words at, just over and far over the slice
   length, and with num_suggestions below, inside and above 1..8. *)
WordInputs ==
    {Single(ep, Nothing, Some(ClientA), lang, w, sug, FALSE) :
        ep \in {"tl", "rtl"}, lang \in {Hi, Xx},
        w \in {<<" ", "a">>, WordOf(WORD_CHAR_LIMIT), WordOf(WORD_CHAR_LIMIT + 1),
               WordOf(LongWordLen)},
        sug \in {Nothing, Some(0), Some(-1), Some(MAX_SUGGESTIONS + 1)}}

(* /tl and /rtl, one worker. *)
NextWord ==
    \/ BeginSingle(1, WordInputs)
    \/ LimiterHit(1)
    \/ \E k \in LimitKeys : WindowExpires(k)
    \/ SingleInvalidLang(1)
    \/ SingleCall(1)
    \/ SingleReturn(1)
    \/ Finish(1)

SpecWord == Init /\ [][NextWord]_vars

(* A source that holds the separator json.dumps writes between strings. *)
TQuote == <<"a", "\"", ",", " ", "\"", "a">>

(* Word-mode batches in both directions of one language. *)
KeyBodies ==
    {Body(p[1], p[2], Nothing, Nothing, texts) :
        p \in {<<En, Hi>>, <<Hi, En>>},
        texts \in SeqsUpTo({TShort, TQuote}, KeyItems)}

(* The batch endpoint, one worker, both directions. *)
NextKey ==
    \/ BeginUlca(1, KeyBodies)
    \/ UlcaAccept(1)
    \/ UlcaGetFails(1)
    \/ UlcaGetHit(1)
    \/ UlcaGetMiss(1)
    \/ UlcaEngineRaises(1)
    \/ UlcaEngineReturns(1)
    \/ UlcaSetFails(1)
    \/ UlcaSet(1)
    \/ Finish(1)

SpecKey == Init /\ [][NextKey]_vars

(* The whole service, one worker, with engine calls that may not return;
   every step the code can take is eventually taken. *)
NextHang ==
    \/ Next
    \/ EngineHangs(1)

SpecHang == Init /\ [][NextHang]_vars /\ WF_vars(NextHang)

(* ------------------------------ properties ----------------------------- *)

Events(q, ops) == {j \in 1..Len(q.log) : q.log[j].op \in ops}

LastEvent(q) == q.log[Len(q.log)]

(* The top result the engine gives for a call that succeeds. *)
TopOf(call) ==
    IF call.fn = "translit_sentence"
    THEN TranslitSentence(call.engine, call.text, call.lang_code)
    ELSE TranslitWord(call.engine, call.text, call.lang_code, call.topk.val)[1]

HasTop(call) == call.fn = "translit_sentence" \/ call.topk.val >= 1

(* A return event of an engine call that gave no usable result. *)
EngineFailed(ev) ==
    /\ ev.op = "return"
    /\ \/ ev.outcome.kind \in {"raise", "err"}
       \/ ev.target.kind = "list" /\ ev.target.items = <<>>

(* C1: in the batch endpoint the cache is written only by a request whose
   engine call for the current item returned a successful result, the value
   written is that call's top result, and an item whose engine call failed
   (exception, error value, empty candidate list) ends the request without
   reaching the cache write. *)
C1_WriteOnlyAfterSuccess ==
    /\ [](\A r \in Slots :
            req[r].pc = "set" =>
                /\ LastEvent(req[r]).op = "return"
                /\ LastEvent(req[r]).outcome.kind = "ok"
                /\ HasTop(req[r].call))
    /\ [][/\ cache' # cache =>
                \E r \in Slots :
                    /\ req[r].pc = "set"
                    /\ HasTop(req[r].call)
                    /\ cache' = RedisSet(req[r].key,
                                         Utf8Encode(TopOf(req[r].call)))
          /\ \A r \in Slots :
                (req[r].pc = "calling" /\ req'[r].pc # "calling"
                    /\ EngineFailed(LastEvent(req'[r])))
                => (req'[r].pc = "done" /\ req'[r].response.status = 500
                    /\ cache' = cache)]_vars

(* C1 witness: a batch item's engine call has failed, the request is over
   and the item's key has no entry; and an entry written from a success
   exists for another key. *)
C1_Witness ==
    \E r \in Slots :
        /\ req[r].pc = "done" /\ req[r].ep = "ulca"
        /\ \E j \in Events(req[r], {"return"}) : EngineFailed(req[r].log[j])
        /\ req[r].key \notin DOMAIN cache
        /\ cache # <<>>

(* C2: a cache key is never associated with two different values: a write
   never replaces a stored value by a different one. *)
C2_WriteOnce ==
    [][\A k \in DOMAIN cache : k \in DOMAIN cache' /\ cache'[k] = cache[k]]_vars

LastGet(q) ==
    LET gets == Events(q, {"get"})
    IN q.log[CHOOSE j \in gets : \A k \in gets : k <= j]

(* C3: a batch item whose key is in the cache when it is looked up takes the
   cached value as its target, and no engine call and no cache write is made
   for it. *)
C3_HitSkipsEngine ==
    /\ [](\A r \in Slots : \A j \in Events(req[r], {"get"}) :
            req[r].log[j].result = "hit" =>
                \A k \in Events(req[r], {"call", "return", "set"}) :
                    req[r].log[k].i # req[r].log[j].i)
    /\ [][\A r \in Slots :
            (/\ req[r].pc = "get" /\ req'[r].pc # "idle"
             /\ req'[r] # req[r]
             /\ CacheKey(req[r]) \in DOMAIN cache
             /\ LastGet(req'[r]).result # "fail")
            => /\ cache' = cache
               /\ req'[r].pc \in {"get", "done"}
               /\ req'[r].call = NoCall
               /\ LastGet(req'[r]).result = "hit"
               /\ req'[r].data.input[req[r].i].target
                    = PyList(<<Utf8Decode(cache[CacheKey(req[r])])>>)]_vars

(* C3 witness: a batch answered with 200 in which an item was served from
   the cache. *)
C3_Witness ==
    \E r \in Slots :
        /\ req[r].pc = "done" /\ req[r].response.status = 200
        /\ \E j \in Events(req[r], {"get"}) : req[r].log[j].result = "hit"

(* C4: once a result has been cached for a triple, every later call that
   finds the triple in the cache returns, as target[0], the top result that
   was first cached for it. *)
C4_Idempotent ==
    [][\A r \in Slots :
          (/\ req[r].pc = "get" /\ req'[r].pc \in {"get", "done"}
           /\ req'[r] # req[r]
           /\ LastGet(req'[r]).result = "hit")
          => (req'[r].data.input[req[r].i].target.items[1]
                = firstTop[CacheKey(req[r])])]_vars

(* C5: in a batch of 3 items whose item 2 meets an engine failure, the
   response is a 200 that carries the results of items 1 and 3 in order. *)
C5_BatchIndependence ==
    \A r \in Slots :
        (/\ req[r].pc = "done" /\ req[r].ep = "ulca"
         /\ Len(req[r].data.input) = 3
         /\ \E j \in Events(req[r], {"return"}) :
                EngineFailed(req[r].log[j]) /\ req[r].log[j].i = 2)
        => /\ req[r].response.status = 200
           /\ Len(req[r].response.body.output) = 3
           /\ req[r].response.body.output[1].target.kind = "list"
           /\ req[r].response.body.output[3].target.kind = "list"

(* C6: a batch request in which the store's get or set failed still
   completes with HTTP 200. *)
C6_StoreFailOpen ==
    \A r \in Slots :
        (/\ req[r].pc = "done"
         /\ \E j \in Events(req[r], {"get", "set"}) : req[r].log[j].result = "fail")
        => req[r].response.status = 200

(* C7: an exception raised by the engine is converted to a structured
   failure on every endpoint: /tl and /rtl answer the envelope with
   success=false and the internal-error string, and on /transliterate no
   exception leaves the handler. *)
C7_EngineExceptionsCaught ==
    \A r \in Slots :
        (/\ req[r].pc = "done"
         /\ \E j \in Events(req[r], {"return"}) :
                req[r].log[j].outcome.kind = "raise")
        => IF req[r].ep \in {"tl", "rtl"}
           THEN /\ req[r].response.status = 200
                /\ req[r].response.body.success = FALSE
                /\ req[r].response.body.error.text = "Internal crash ;("
           ELSE Events(req[r], {"unhandled"}) = {}

Registry(ep) == IF ep = "tl" THEN En2IndicLangs ELSE Indic2EnLangs

RegisteredPair(d) ==
    \/ d.sourceLanguage = En /\ d.targetLanguage \in En2IndicLangs
    \/ d.targetLanguage = En /\ d.sourceLanguage \in Indic2EnLangs

(* C10: a request that reaches validation and names a language not
   registered for its direction makes no engine call and no cache access;
   /tl and /rtl answer success=false with the supported-languages hint,
   /transliterate answers 501. *)
C10_ValidationFailFast ==
    \A r \in Slots :
        LET q == req[r] IN
        /\ (q.ep \in {"tl", "rtl"} /\ q.lang_code \notin Registry(q.ep))
           => /\ Events(q, {"call", "return", "get", "set"}) = {}
              /\ (q.pc = "done" /\ q.response.status # 429)
                 => /\ q.response.status = 200
                    /\ q.response.body.success = FALSE
                    /\ q.response.body.error =
                         [text |-> "Invalid scheme identifier. Supported languages are: ",
                          hint |-> Registry(q.ep)]
        /\ (q.ep = "ulca" /\ q.data.hasInput /\ q.data.hasConfig
                /\ ~RegisteredPair(q.data))
           => /\ Events(q, {"call", "return", "get", "set"}) = {}
              /\ q.pc = "done" => q.response.status = 501

(* C10 witness: the batch endpoint has answered 501 to a pair whose source
   language is registered only for the other direction, after a request to
   /tl or /rtl was admitted. *)
C10_Witness ==
    \E r \in Slots :
        /\ req[r].pc = "done" /\ req[r].ep = "ulca"
        /\ req[r].response.status = 501
        /\ req[r].data.sourceLanguage = Ta
        /\ \E k \in DOMAIN window : window[k].admitted > 0

(* C8: per client identity and endpoint at most 5 requests are admitted in
   one window, the requests beyond the fifth are rejected, and a rejected
   request is answered 429 without an engine call. *)
C8_RateLimit ==
    /\ \A k \in DOMAIN window :
          /\ window[k].admitted <= 5
          /\ window[k].admitted = IF window[k].arrived <= 5
                                  THEN window[k].arrived ELSE 5
    /\ \A r \in Slots :
          (\E j \in Events(req[r], {"limit"}) : ~req[r].log[j].allowed)
          => /\ req[r].pc = "done"
             /\ req[r].response.status = 429
             /\ Events(req[r], {"call", "return"}) = {}

(* C8 witness: a sixth request of one client in a window has been rejected
   while an earlier one is still in its engine call. *)
C8_Witness ==
    \E r, s \in Slots :
        /\ req[r].pc = "done" /\ req[r].response.status = 429
        /\ req[s].pc = "calling" /\ req[s].ep = "rtl" /\ req[r].ep = "rtl"
        /\ window[LimitKey(req[r])].arrived = 6
        /\ window[LimitKey(req[r])].admitted = 5

(* The client identity of the claim: the X-Forwarded-For header when the
   request carries one, else the remote address; the loopback address when
   that value is empty or missing. *)
ClientIdentity(q) ==
    LET named == IF q.xff.present THEN q.xff ELSE q.remote_addr
    IN IF named.present /\ named.val # "" THEN named.val ELSE "127.0.0.1"

(* C9: whether a request is admitted depends only on the counter of its own
   client identity on its endpoint, which only that client's requests (and
   the window's expiry) change: a request never changes the counter of
   another client. *)
C9_NoInterference ==
    [][\A r \in Slots :
          (req[r].pc = "limit" /\ req'[r].pc # "limit")
          => LET me == <<ClientIdentity(req[r]), req[r].ep>>
             IN /\ (req'[r].pc = "handler") <=> (Count(hits, me) < 5)
                /\ (req'[r].pc # "handler")
                       => (req'[r].pc = "done" /\ req'[r].response.status = 429)
                /\ Count(hits', me) = Count(hits, me) + 1
                /\ \A k \in DOMAIN hits \cup DOMAIN hits' :
                      (k # me) => (Count(hits', k) = Count(hits, k))]_vars

(* C9 witness: one client's window is exhausted, partly by requests that
   named it in X-Forwarded-For, while another client on the same endpoint
   is admitted. *)
C9_Witness ==
    \E r, s \in Slots :
        /\ req[r].pc = "handler" /\ GetRemoteAddress(req[r]) = Localhost
        /\ req[s].pc = "done" /\ req[s].response.status = 429
        /\ req[s].xff.present /\ GetRemoteAddress(req[s]) = ClientA
        /\ Count(hits, <<ClientA, "tl">>) = 6
        /\ Count(hits, <<Localhost, "tl">>) = 1

(* C11: every batch item's source is cut to its first 32 characters before
   the cache lookup and before the engine call, in word mode and in sentence
   mode: the key looked up and the text given to the engine are both made
   from the first 32 characters of the source as received. *)
C11_BatchTruncation ==
    [][\A r \in Slots :
          (req[r].pc = "get" /\ req'[r] # req[r])
          => LET q == req[r]
                 src == Received(q).input[q.i].source
                 cut == Prefix(src, BATCH_CHAR_LIMIT)
             IN /\ LastGet(req'[r]).key
                     = JsonDumps(<<cut, q.data.sourceLanguage,
                                   q.data.targetLanguage>>)
                /\ (req'[r].pc = "calling") => (req'[r].call.text = cut)]_vars

(* C12: on /tl and /rtl the text given to the engine is the first 70
   characters of the path word, and the whole word when it has at most 70
   characters. *)
C12_WordTruncation ==
    \A r \in Slots :
        (req[r].ep \in {"tl", "rtl"} /\ req[r].pc = "calling")
        => LET word == req[r].word
               text == req[r].call.text
           IN /\ Len(word) <= 70 => text = word
              /\ Len(word) > 70 => text = [j \in 1..70 |-> word[j]]
              /\ \A j \in Events(req[r], {"call"}) : req[r].log[j].call.text = text

(* C12 witness: a 100-character word is in its engine call with a text of
   70 characters. *)
C12_Witness ==
    \E r \in Slots :
        /\ req[r].ep = "rtl" /\ req[r].pc = "calling"
        /\ Len(req[r].word) = LongWordLen
        /\ Len(req[r].call.text) = 70
        /\ req[r].call.text[1] = "x"

(* C13: on every engine call of /tl, /rtl and /transliterate the topk given
   to the engine lies in 1..8, whatever the client supplied, and a
   sentence-mode request has its number of suggestions forced to 1. *)
C13_TopkClamped ==
    \A r \in Slots : \A j \in Events(req[r], {"call"}) :
        LET c == req[r].log[j].call
        IN /\ c.topk.present => c.topk.val \in 1..8
           /\ c.fn = "translit_sentence" => req[r].num_suggestions = 1

(* C14: on a 200 answer of the batch endpoint the output has the length of
   the input as received, and its i-th item is the result for the i-th input
   item: the item was looked up once under the key of the i-th source; on a
   hit its target is the cached value of that key, on a miss it is what the
   engine returned for the i-th source. *)
C14_OrderPreserved ==
    \A r \in Slots :
        (req[r].pc = "done" /\ req[r].ep = "ulca" /\ req[r].response.status = 200)
        => LET q == req[r]
               inp == Received(q).input
               out == q.response.body.output
           IN /\ Len(out) = Len(inp)
              /\ \A i \in 1..Len(inp) :
                    LET src == inp[i].source
                        key == JsonDumps(<<src, q.data.sourceLanguage,
                                           q.data.targetLanguage>>)
                        gets == {j \in Events(q, {"get"}) : q.log[j].i = i}
                    IN /\ Cardinality(gets) = 1
                       /\ \A j \in gets :
                            /\ q.log[j].key = key
                            /\ IF q.log[j].result = "hit"
                               THEN /\ out[i].source = src
                                    /\ out[i].target
                                         = PyList(<<Utf8Decode(cache[key])>>)
                               ELSE \E c \in Events(q, {"call"}) :
                                       /\ q.log[c].i = i
                                       /\ q.log[c].call.text = out[i].source
                                       /\ out[i].source \in
                                            {src, [k \in 1..32 \cap 1..Len(src) |-> src[k]]}
                                       /\ out[i].target.kind = "list"
                                       /\ out[i].target.items[1]
                                            = TopOf(q.log[c].call)

(* C14 witness: a 200 answer to a batch of three items with different
   sources, of which one was a hit and one a miss. *)
C14_Witness ==
    \E r \in Slots :
        /\ req[r].pc = "done" /\ req[r].response.status = 200
        /\ req[r].ep = "ulca" /\ Len(req[r].response.body.output) = 3
        /\ Received(req[r]).input[1].source # Received(req[r]).input[3].source
        /\ \E j, k \in Events(req[r], {"get"}) :
              req[r].log[j].result = "hit" /\ req[r].log[k].result = "miss"

(* C15: at no time are two requests inside a translit_word or
   translit_sentence call of the same engine instance. *)
C15_EngineSerialized ==
    \A r, s \in Slots :
        (r # s /\ req[r].pc = "calling" /\ req[s].pc = "calling")
        => req[r].call.engine # req[s].call.engine

(* The triples the key function is compared on: texts and language codes,
   among them strings that hold quotes and the list separator. *)
KeyTriples ==
    LET parts == {TShort, TQuote, En, Hi}
    IN {<<t, a, b>> : t \in parts, a \in parts, b \in parts}

(* The triple of the item a lookup event of a request was made for. *)
TripleOf(q, j) ==
    <<Received(q).input[q.log[j].i].source, q.data.sourceLanguage,
      q.data.targetLanguage>>

(* C16: the cache key is a function of the triple (text, sourceLang,
   targetLang) alone and tells triples apart: two lookups, of one request or
   of two, have the same key exactly when their triples are equal, a lookup's
   key is the key of its own triple and of no other, and two triples that
   differ in a component, or have the languages swapped, have different
   keys. *)
C16_KeyDeterminism ==
    /\ \A r, s \in Slots :
         \A j \in Events(req[r], {"get"}) : \A k \in Events(req[s], {"get"}) :
            (req[r].log[j].key = req[s].log[k].key)
                <=> (TripleOf(req[r], j) = TripleOf(req[s], k))
    /\ \A r \in Slots : \A j \in Events(req[r], {"get"}) :
         \A t \in KeyTriples :
            (req[r].log[j].key = JsonDumps(t)) <=> (t = TripleOf(req[r], j))
    /\ Cardinality({JsonDumps(t) : t \in KeyTriples}) = Cardinality(KeyTriples)
    /\ \A t \in KeyTriples :
         (t[2] # t[3]) => (JsonDumps(t) # JsonDumps(<<t[1], t[3], t[2]>>))

(* C16 witness: the store holds the keys of a text for both directions, and
   a batch has looked up the same triple twice and a different one once. *)
C16_Witness ==
    /\ JsonDumps(<<TQuote, En, Hi>>) \in DOMAIN cache
    /\ JsonDumps(<<TQuote, Hi, En>>) \in DOMAIN cache
    /\ JsonDumps(<<TShort, Hi, En>>) \in DOMAIN cache
    /\ \E r \in Slots : \E j, k \in Events(req[r], {"get"}) :
          /\ j # k
          /\ req[r].log[j].key = req[r].log[k].key
          /\ req[r].log[j].result = "miss" /\ req[r].log[k].result = "hit"

(* C17: every request that has entered its handler is eventually answered,
   and a request whose engine call does not return is eventually answered
   with an error. *)
C17_HungCallBounded ==
    \A r \in Slots :
        /\ (req[r].pc \in {"handler", "get", "calling", "set"})
                ~> (req[r].pc \in {"done", "hung"})
        /\ (req[r].pc = "hung")
                ~> (req[r].pc = "done" /\ req[r].response.status # 0)

(* C18: every engine call of the batch endpoint uses an engine and a
   lang_code that form a registered pair: en2indic with the request's
   targetLanguage, which en2indic supports, the sourceLanguage being "en";
   or indic2en with the request's sourceLanguage, which indic2en supports,
   the targetLanguage being "en". *)
C18_DirectionSelection ==
    \A r \in Slots :
        req[r].ep = "ulca" =>
            \A j \in Events(req[r], {"call"}) :
                LET c == req[r].log[j].call
                    d == Received(req[r])
                IN \/ /\ c.engine = "en2indic"
                      /\ c.lang_code \in En2IndicLangs
                      /\ c.lang_code = d.targetLanguage
                      /\ d.sourceLanguage = En
                   \/ /\ c.engine = "indic2en"
                      /\ c.lang_code \in Indic2EnLangs
                      /\ c.lang_code = d.sourceLanguage
                      /\ d.targetLanguage = En

(* C18 witness: after an en -> hi item was cached, a ur -> en request is in
   its call of indic2en. *)
C18_Witness ==
    /\ JsonDumps(<<TShort, En, Hi>>) \in DOMAIN cache
    /\ \E r \in Slots :
          /\ req[r].ep = "ulca" /\ req[r].pc = "calling"
          /\ req[r].call.engine = "indic2en" /\ req[r].call.lang_code = Ur

(* The source a word-mode miss returns for an item received with source
   src: its first 32 characters. *)
SourceOnMiss(src) == [k \in 1..32 \cap 1..Len(src) |-> src[k]]

(* C19: in a word-mode batch answered with 200 every output item carries
   the same source whether it was a hit or a miss: the source a miss returns
   for that input item, so that two items received with the same source
   come back with the same source. *)
C19_SourceSameOnHitAndMiss ==
    \A r \in Slots :
        (/\ req[r].pc = "done" /\ req[r].ep = "ulca"
         /\ req[r].response.status = 200 /\ ~req[r].is_sentence)
        => LET inp == Received(req[r]).input
               out == req[r].response.body.output
           IN /\ \A i \in 1..Len(out) :
                    out[i].source = SourceOnMiss(inp[i].source)
              /\ \A i, j \in 1..Len(out) :
                    (inp[i].source = inp[j].source)
                    => (out[i].source = out[j].source)

(* C20: in every answer of the /tl and /rtl handlers success is true exactly
   when error is the empty string and exactly when result is the candidate
   list the engine returned; when success is false (unsupported language,
   engine exception, engine error value) result is the empty string and
   error is not empty. *)
C20_EnvelopeConsistent ==
    \A r \in Slots :
        (/\ req[r].pc = "done" /\ req[r].ep \in {"tl", "rtl"}
         /\ req[r].response.status # 429)
        => LET q == req[r]
               b == q.response.body
               returned ==
                   \E c \in Events(q, {"call"}) : \E t \in Events(q, {"return"}) :
                       /\ q.log[t].outcome.kind = "ok"
                       /\ b.result = PyList(TranslitWord(q.log[c].call.engine,
                                                         q.log[c].call.text,
                                                         q.log[c].call.lang_code,
                                                         q.log[c].call.topk.val))
           IN /\ q.response.status = 200
              /\ b.success \in BOOLEAN
              /\ b.success <=> (b.error.text = "")
              /\ b.success <=> returned
              /\ ~b.success =>
                    /\ b.result = PyStr("")
                    /\ b.error.text # ""
                    /\ \/ /\ q.lang_code \notin Registry(q.ep)
                          /\ Events(q, {"call"}) = {}
                       \/ \E t \in Events(q, {"return"}) :
                             \/ /\ q.log[t].outcome.kind = "raise"
                                /\ b.error.text = "Internal crash ;("
                             \/ /\ q.log[t].outcome.kind = "err"
                                /\ b.error.text = q.log[t].outcome.err.value

(* C20 witness: /rtl has answered success=false with the internal-error
   text and an empty result after the engine raised on a 100-character
   word. *)
C20_Witness ==
    \E r \in Slots :
        /\ req[r].pc = "done" /\ req[r].ep = "rtl"
        /\ req[r].response.status = 200
        /\ Len(req[r].word) = LongWordLen
        /\ ~req[r].response.body.success
        /\ req[r].response.body.error.text = "Internal crash ;("
        /\ \E t \in Events(req[r], {"return"}) :
              req[r].log[t].outcome.kind = "raise"

====
